---- MODULE Spec2Model ----
(***************************************************************************)
(* Model of punycode.py: the Punycode codec of RFC 3492.                    *)
(*                                                                         *)
(* Strings are sequences of code points (ord/chr are the identity on the   *)
(* code points 0..0x10FFFF; chr raises ValueError outside that range).     *)
(* One behaviour is one call of punycode_encode or punycode_decode; the    *)
(* variables are the locals of the call and pc is the position in it.      *)
(* Python integers are unbounded and // and % are floor division and its   *)
(* remainder, which is what \div and % are for a positive divisor.         *)
(***************************************************************************)
EXTENDS Integers, Sequences, FiniteSets, TLC

\* ---------------------------------------------------------------- bounds
MaxEncLen == 3
MaxDecLen == 3

\* ------------------------------------------------------------- constants
BASE == 36
TMIN == 1
TMAX == 26
SKEW == 38
DAMP == 700
INITIAL_BIAS == 72
INITIAL_N == 128
DELIMITER == 45
MAX_CP == 1114111

\* ---------------------------------------------------------------- inputs
\* '!', '-', 'a', U+0080, U+0081, U+00FC, U+10FFFF
EncAlphabet == {33, 45, 97, 128, 129, 252, 1114111}
\* '!', '-', '9', ':', 'B', 'a', '{', U+00FC
DecAlphabet == {33, 45, 57, 58, 66, 97, 123, 252}

Munchen == <<77, 252, 110, 99, 104, 101, 110>>
MnchenPuny == <<77, 110, 99, 104, 101, 110, 45, 51, 121, 97>>
Uuml == <<252>>
Tda == <<116, 100, 97>>

SeqsUpTo(S, len) == UNION {[1..m -> S] : m \in 0..len}

EncInputs == SeqsUpTo(EncAlphabet, MaxEncLen) \cup {Munchen}
DecInputs == SeqsUpTo(DecAlphabet, MaxDecLen) \cup {MnchenPuny, Tda}

\* --------------------------------------------------------------- helpers
SetMin(S) == CHOOSE x \in S : \A y \in S : x <= y

Range(s) == {s[x] : x \in DOMAIN s}

\* str.rfind(DELIMITER): 0-based index of the last delimiter, -1 if none
RFind(s, c) ==
    IF \E x \in DOMAIN s : s[x] = c
    THEN (CHOOSE x \in DOMAIN s : s[x] = c /\ \A y \in DOMAIN s : s[y] = c => y <= x) - 1
    ELSE -1

\* list.insert(idx, x) for 0 <= idx <= len(s), idx 0-based
Insert(s, idx, x) == SubSeq(s, 1, idx) \o <<x>> \o SubSeq(s, idx + 1, Len(s))

\* chr(cp) raises ValueError unless 0 <= cp <= 0x10FFFF
ChrOk(s) == \A x \in DOMAIN s : s[x] >= 0 /\ s[x] <= MAX_CP

is_basic_le(cp) == cp <= 128

is_basic(cp) == cp < 128

decode_digit_naive(cp) ==
    IF cp - 48 < 10 THEN cp - 48
    ELSE IF cp - 65 < 26 THEN cp - 65
    ELSE IF cp - 97 < 26 THEN cp - 97
    ELSE BASE

decode_digit(cp) ==
    IF cp - 48 < 10 THEN cp - 22
    ELSE IF cp - 65 < 26 THEN cp - 65
    ELSE IF cp - 97 < 26 THEN cp - 97
    ELSE BASE

encode_digit_shift(d, flag) == d + 22

encode_digit(d, flag) ==
    IF d < 26 THEN d + (IF ~flag THEN 97 ELSE 65)
    ELSE d + 22

\* the loop of adapt: delta and k after it
RECURSIVE AdaptLoop(_, _)
AdaptLoop(delta, k) ==
    IF delta > (((BASE - TMIN) * TMAX) \div 2)
    THEN AdaptLoop(delta \div (BASE - TMIN), k + BASE)
    ELSE <<delta, k>>

\* delta as adapt has it when it reaches its return statement
AdaptDelta(delta, numpoints, firsttime) ==
    LET d1 == IF firsttime THEN delta \div DAMP ELSE delta \div 2
        d2 == d1 + (d1 \div numpoints)
    IN  AdaptLoop(d2, 0)[1]

\* the division of the return statement raises ZeroDivisionError
AdaptRaises(delta, numpoints, firsttime) ==
    AdaptDelta(delta, numpoints, firsttime) + SKEW = 0

adapt_nodiv(delta, numpoints, firsttime) ==
    LET d1 == IF firsttime THEN delta \div DAMP ELSE delta \div 2
        d2 == d1 + (d1 \div numpoints)
        r  == AdaptLoop(d2, 0)
    IN  r[2] + ((BASE - TMIN + 1) * r[1])

adapt(delta, numpoints, firsttime) ==
    LET d1 == IF firsttime THEN delta \div DAMP ELSE delta \div 2
        d2 == d1 + (d1 \div numpoints)
        r  == AdaptLoop(d2, 0)
    IN  r[2] + (((BASE - TMIN + 1) * r[1]) \div (r[1] + SKEW))

\* t = TMIN if k <= bias else (TMAX if k >= bias + TMAX else k - bias)
Threshold(k, bias) ==
    IF k <= bias THEN TMIN
    ELSE IF k >= bias + TMAX THEN TMAX
    ELSE k - bias

\* the "while True" loop of punycode_encode and the append after it:
\* the digits of q as a generalized variable-length integer
RECURSIVE EncodeVarInt(_, _, _)
EncodeVarInt(q, k, bias) ==
    LET t == Threshold(k, bias)
    IN  IF q < t
        THEN <<encode_digit(q, FALSE)>>
        ELSE <<encode_digit(t + ((q - t) % (BASE - t)), FALSE)>>
             \o EncodeVarInt((q - t) \div (BASE - t), k + BASE, bias)

\* ----------------------------------------------------------------- state
VARIABLES
    call,         \* "encode" or "decode": the function that was called
    input_str,    \* its argument
    pc,           \* position in the function
    input_cps,    \* locals of the call ...
    n, delta, bias, h, b, output,
    pos,          \* 1-based position of the for loop of punycode_encode
    encoded_cps, i, oldi, w, k,
    ret,          \* the returned string, once pc = "returned"
    exc           \* the exception raised, once pc = "raised"

vars == <<call, input_str, pc, input_cps, n, delta, bias, h, b, output, pos,
          encoded_cps, i, oldi, w, k, ret, exc>>

\* the frame of the call as a record
Cur == [call |-> call, input_str |-> input_str, pc |-> pc,
        input_cps |-> input_cps, n |-> n, delta |-> delta, bias |-> bias,
        h |-> h, b |-> b, output |-> output, pos |-> pos,
        encoded_cps |-> encoded_cps, i |-> i, oldi |-> oldi, w |-> w,
        k |-> k, ret |-> ret, exc |-> exc]

Become(s) ==
    /\ call' = s.call /\ input_str' = s.input_str /\ pc' = s.pc
    /\ input_cps' = s.input_cps /\ n' = s.n /\ delta' = s.delta
    /\ bias' = s.bias /\ h' = s.h /\ b' = s.b /\ output' = s.output
    /\ pos' = s.pos /\ encoded_cps' = s.encoded_cps /\ i' = s.i
    /\ oldi' = s.oldi /\ w' = s.w /\ k' = s.k /\ ret' = s.ret
    /\ exc' = s.exc

\* the frame at the call of fn(str), before its first statement
Start(fn, str) ==
    [call |-> fn, input_str |-> str,
     pc |-> IF fn = "encode" THEN "enc_init" ELSE "dec_init",
     input_cps |-> <<>>, n |-> 0, delta |-> 0, bias |-> 0, h |-> 0, b |-> 0,
     output |-> <<>>, pos |-> 0, encoded_cps |-> <<>>, i |-> 0, oldi |-> 0,
     w |-> 0, k |-> 0, ret |-> <<>>, exc |-> ""]

Raise(s, e) == [s EXCEPT !.pc = "raised", !.exc = e]

\* ------------------------------------------------------- punycode_encode
EncInit_always(s) ==
    LET cps   == s.input_str
        basic == SelectSeq(cps, is_basic)
    IN  [s EXCEPT !.pc = "enc_while", !.input_cps = cps,
                  !.n = INITIAL_N, !.delta = 0, !.bias = INITIAL_BIAS,
                  !.output = basic \o <<DELIMITER>>,
                  !.h = Len(basic), !.b = Len(basic)]

\* lines 98-115
EncInit(s) ==
    LET cps   == s.input_str
        basic == SelectSeq(cps, is_basic)
    IN  [s EXCEPT !.pc = "enc_while", !.input_cps = cps,
                  !.n = INITIAL_N, !.delta = 0, !.bias = INITIAL_BIAS,
                  !.output = IF basic # <<>> THEN basic \o <<DELIMITER>> ELSE basic,
                  !.h = Len(basic), !.b = Len(basic)]

EncWhile_h(s) ==
    IF s.h < Len(s.input_cps)
    THEN LET cand == {cp \in Range(s.input_cps) : ~is_basic(cp) /\ cp >= s.n}
         IN  IF cand = {}
             THEN Raise(s, "ValueError")
             ELSE LET m == SetMin(cand)
                  IN  [s EXCEPT !.pc = "enc_for", !.pos = 1,
                                !.delta = s.delta + (m - s.n) * s.h,
                                !.n = m]
    ELSE [s EXCEPT !.pc = "enc_return"]

\* lines 118-124: the loop test, m = min(...) (ValueError on an empty
\* generator), the update of delta and n; then the for loop starts
EncWhile(s) ==
    IF s.h < Len(s.input_cps)
    THEN LET cand == {cp \in Range(s.input_cps) : ~is_basic(cp) /\ cp >= s.n}
         IN  IF cand = {}
             THEN Raise(s, "ValueError")
             ELSE LET m == SetMin(cand)
                  IN  [s EXCEPT !.pc = "enc_for", !.pos = 1,
                                !.delta = s.delta + (m - s.n) * (s.h + 1),
                                !.n = m]
    ELSE [s EXCEPT !.pc = "enc_return"]

\* lines 127-143: one iteration of "for cp in input_cps"
EncFor(s) ==
    LET cp == s.input_cps[s.pos]
    IN  IF cp < s.n
        THEN [s EXCEPT !.delta = s.delta + 1, !.pos = s.pos + 1]
        ELSE IF cp = s.n
        THEN [s EXCEPT !.output = s.output \o EncodeVarInt(s.delta, BASE, s.bias),
                       !.bias = adapt(s.delta, s.h + 1, s.h = s.b),
                       !.delta = 0, !.h = s.h + 1, !.pos = s.pos + 1]
        ELSE [s EXCEPT !.pos = s.pos + 1]

EncForEnd_skip(s) ==
    [s EXCEPT !.pc = "enc_while", !.delta = s.delta + 1, !.n = s.n + 2]

\* lines 144-145: after the for loop
EncForEnd(s) ==
    [s EXCEPT !.pc = "enc_while", !.delta = s.delta + 1, !.n = s.n + 1]

\* line 148
EncReturn(s) ==
    IF ChrOk(s.output)
    THEN [s EXCEPT !.pc = "returned", !.ret = s.output]
    ELSE Raise(s, "ValueError")

\* ------------------------------------------------------- punycode_decode
DecInit_incl(s) ==
    LET cps == s.input_str
        last_delimiter == RFind(s.input_str, DELIMITER)
    IN  [s EXCEPT !.pc = "dec_while", !.input_cps = cps,
                  !.output = IF last_delimiter = -1 THEN <<>>
                             ELSE SubSeq(cps, 1, last_delimiter + 1),
                  !.encoded_cps = IF last_delimiter = -1 THEN cps
                                  ELSE SubSeq(cps, last_delimiter + 2, Len(cps)),
                  !.n = INITIAL_N, !.i = 0, !.bias = INITIAL_BIAS]

\* lines 153-168
DecInit(s) ==
    LET cps == s.input_str
        last_delimiter == RFind(s.input_str, DELIMITER)
    IN  [s EXCEPT !.pc = "dec_while", !.input_cps = cps,
                  !.output = IF last_delimiter = -1 THEN <<>>
                             ELSE SubSeq(cps, 1, last_delimiter),
                  !.encoded_cps = IF last_delimiter = -1 THEN cps
                                  ELSE SubSeq(cps, last_delimiter + 2, Len(cps)),
                  !.n = INITIAL_N, !.i = 0, !.bias = INITIAL_BIAS]

\* lines 171-174
DecWhile(s) ==
    IF s.encoded_cps # <<>>
    THEN [s EXCEPT !.pc = "dec_digit", !.oldi = s.i, !.w = 1, !.k = BASE]
    ELSE [s EXCEPT !.pc = "dec_return"]

\* lines 175-187: one iteration of the "while True" loop
DecDigit(s) ==
    IF s.encoded_cps = <<>>
    THEN Raise(s, "ValueError")
    ELSE LET cp    == Head(s.encoded_cps)
             digit == decode_digit(cp)
             s1    == [s EXCEPT !.encoded_cps = Tail(s.encoded_cps)]
         IN  IF digit >= BASE
             THEN Raise(s1, "ValueError")
             ELSE LET t  == Threshold(s.k, s.bias)
                      s2 == [s1 EXCEPT !.i = s.i + digit * s.w]
                  IN  IF digit < t
                      THEN [s2 EXCEPT !.pc = "dec_adapt"]
                      ELSE [s2 EXCEPT !.w = s.w * (BASE - t), !.k = s.k + BASE]

DecAdapt_nomod(s) ==
    IF AdaptRaises(s.i - s.oldi, Len(s.output) + 1, s.oldi = 0)
    THEN Raise(s, "ZeroDivisionError")
    ELSE [s EXCEPT !.pc = "dec_insert",
                   !.bias = adapt(s.i - s.oldi, Len(s.output) + 1, s.oldi = 0),
                   !.n = s.n + (s.i \div (Len(s.output) + 1))]

\* lines 189-191
DecAdapt(s) ==
    IF AdaptRaises(s.i - s.oldi, Len(s.output) + 1, s.oldi = 0)
    THEN Raise(s, "ZeroDivisionError")
    ELSE [s EXCEPT !.pc = "dec_insert",
                   !.bias = adapt(s.i - s.oldi, Len(s.output) + 1, s.oldi = 0),
                   !.n = s.n + (s.i \div (Len(s.output) + 1)),
                   !.i = s.i % (Len(s.output) + 1)]

\* lines 194-195: list.insert clamps an index beyond the end to the end
DecInsert(s) ==
    LET at == IF s.i > Len(s.output) THEN Len(s.output)
              ELSE IF s.i < 0 THEN (IF s.i + Len(s.output) < 0 THEN 0 ELSE s.i + Len(s.output))
              ELSE s.i
    IN  [s EXCEPT !.pc = "dec_while", !.output = Insert(s.output, at, s.n),
                  !.i = s.i + 1]

\* line 198
DecReturn(s) ==
    IF ChrOk(s.output)
    THEN [s EXCEPT !.pc = "returned", !.ret = s.output]
    ELSE Raise(s, "ValueError")

\* ---------------------------------------------------------- whole calls
Final(s) == s.pc \in {"returned", "raised"}

\* the next statement of the call
Step(s) ==
    CASE s.pc = "enc_init"   -> EncInit(s)
      [] s.pc = "enc_while"  -> EncWhile(s)
      [] s.pc = "enc_for"    -> IF s.pos <= Len(s.input_cps) THEN EncFor(s) ELSE EncForEnd(s)
      [] s.pc = "enc_return" -> EncReturn(s)
      [] s.pc = "dec_init"   -> DecInit(s)
      [] s.pc = "dec_while"  -> DecWhile(s)
      [] s.pc = "dec_digit"  -> DecDigit(s)
      [] s.pc = "dec_adapt"  -> DecAdapt(s)
      [] s.pc = "dec_insert" -> DecInsert(s)
      [] s.pc = "dec_return" -> DecReturn(s)

RECURSIVE Run(_)
Run(s) == IF Final(s) THEN s ELSE Run(Step(s))

punycode_encode(str) == Run(Start("encode", str))
punycode_decode(str) == Run(Start("decode", str))

\* --------------------------------------------------------- specification
Init ==
    \E fn \in {"encode", "decode"} :
        \E str \in (IF fn = "encode" THEN EncInputs ELSE DecInputs) :
            LET s == Start(fn, str)
            IN  /\ call = s.call /\ input_str = s.input_str /\ pc = s.pc
                /\ input_cps = s.input_cps /\ n = s.n /\ delta = s.delta
                /\ bias = s.bias /\ h = s.h /\ b = s.b /\ output = s.output
                /\ pos = s.pos /\ encoded_cps = s.encoded_cps /\ i = s.i
                /\ oldi = s.oldi /\ w = s.w /\ k = s.k /\ ret = s.ret
                /\ exc = s.exc

DoEncInit   == pc = "enc_init" /\ Become(EncInit(Cur))
DoEncWhile  == pc = "enc_while" /\ Become(EncWhile(Cur))
DoEncFor    == pc = "enc_for" /\ pos <= Len(input_cps) /\ Become(EncFor(Cur))
DoEncForEnd == pc = "enc_for" /\ pos > Len(input_cps) /\ Become(EncForEnd(Cur))
DoEncReturn == pc = "enc_return" /\ Become(EncReturn(Cur))
DoDecInit   == pc = "dec_init" /\ Become(DecInit(Cur))
DoDecWhile  == pc = "dec_while" /\ Become(DecWhile(Cur))
DoDecDigit  == pc = "dec_digit" /\ Become(DecDigit(Cur))
DoDecAdapt  == pc = "dec_adapt" /\ Become(DecAdapt(Cur))
DoDecInsert == pc = "dec_insert" /\ Become(DecInsert(Cur))
DoDecReturn == pc = "dec_return" /\ Become(DecReturn(Cur))

Next ==
    \/ DoEncInit
    \/ DoEncWhile
    \/ DoEncFor
    \/ DoEncForEnd
    \/ DoEncReturn
    \/ DoDecInit
    \/ DoDecWhile
    \/ DoDecDigit
    \/ DoDecAdapt
    \/ DoDecInsert
    \/ DoDecReturn

Spec == Init /\ [][Next]_vars

\* ----------------------------------------------------------------- claims
Returned(fn) == call = fn /\ pc = "returned"

Started == pc \notin {"enc_init", "dec_init"}

BasicOnly(s) == \A x \in DOMAIN s : s[x] < 128

Count(s, c) == Cardinality({x \in DOMAIN s : s[x] = c})

NumBasic(s) == Cardinality({x \in DOMAIN s : s[x] < 128})

\* [A-Za-z0-9] and [a-z0-9]
Alnum == (48..57) \cup (65..90) \cup (97..122)
LowerAlnum == (48..57) \cup (97..122)

\* the encoded suffix of a decoder input: what follows the last delimiter
Suffix(s) == SubSeq(s, RFind(s, DELIMITER) + 2, Len(s))

\* the characters of the suffix the decoder has popped so far
Consumed == SubSeq(Suffix(input_str), 1, Len(Suffix(input_str)) - Len(encoded_cps))

\* C1: punycode_encode(s) returns for every s, and punycode_decode of the
\* string it returns gives back exactly s.
C1_RoundTrip ==
    /\ call = "encode" => pc # "raised"
    /\ Returned("encode") =>
          LET d == punycode_decode(ret)
          IN  d.pc = "returned" /\ d.ret = input_str

\* "a-" followed by U+00FC: a basic prefix that contains the delimiter
C1_Witness ==
    /\ Returned("encode")
    /\ input_str = <<97, 45, 252>>
    /\ Len(ret) > 4
    /\ punycode_decode(ret).ret = input_str

\* C2 as stated: a string of basic code points encodes to itself.
C2_AsStated ==
    Returned("encode") /\ BasicOnly(input_str) => ret = input_str

\* C2 (amended): a non-empty string of basic code points encodes to itself
\* followed by one delimiter; the empty string encodes to itself.
C2_BasicOnlyEncode ==
    (call = "encode" /\ BasicOnly(input_str) /\ Final(Cur)) =>
        /\ pc = "returned"
        /\ ret = IF input_str = <<>> THEN <<>> ELSE input_str \o <<DELIMITER>>

C2_Witness ==
    Returned("encode") /\ input_str = <<97, 33, 97>> /\ ret = <<97, 33, 97, 45>>

\* C3 as stated: a string of basic code points decodes to itself.
C3_AsStated ==
    (call = "decode" /\ BasicOnly(input_str) /\ Final(Cur)) =>
        pc = "returned" /\ ret = input_str

\* C3 (amended): a string of basic code points followed by one delimiter
\* decodes to that string; the empty string decodes to itself.
C3_BasicOnlyDecode ==
    (call = "decode" /\ BasicOnly(input_str) /\ Final(Cur)) =>
        /\ input_str = <<>> => pc = "returned" /\ ret = <<>>
        /\ (input_str # <<>> /\ input_str[Len(input_str)] = DELIMITER) =>
              pc = "returned" /\ ret = SubSeq(input_str, 1, Len(input_str) - 1)

C3_Witness ==
    Returned("decode") /\ input_str = <<97, 66, 45>> /\ ret = <<97, 66>>

\* C4: punycode_decode returns a string only if every character of the
\* encoded suffix is in [A-Za-z0-9]; any other character read as a digit makes
\* the call raise.
C4_InvalidDigitRejected ==
    Returned("decode") =>
        \A x \in DOMAIN Suffix(input_str) : Suffix(input_str)[x] \in Alnum

\* C5 as stated: the output has at most one delimiter, at the index that is
\* the number of basic code points of the input.
C5_AsStated ==
    Returned("encode") =>
        /\ Count(ret, DELIMITER) <= 1
        /\ Count(ret, DELIMITER) > 0 => RFind(ret, DELIMITER) = NumBasic(input_str)

\* C5 (amended): the output has the delimiters of the input plus one when
\* the input has basic code points and none otherwise, and the last delimiter
\* of the output is at the index that is the number of basic code points.
C5_DelimiterPlacement ==
    Returned("encode") =>
        /\ Count(ret, DELIMITER) = Count(input_str, DELIMITER)
                                   + (IF NumBasic(input_str) > 0 THEN 1 ELSE 0)
        /\ Count(ret, DELIMITER) > 0 => RFind(ret, DELIMITER) = NumBasic(input_str)

C5_Witness ==
    /\ Returned("encode")
    /\ input_str = <<45, 252>>
    /\ Count(ret, DELIMITER) = 2
    /\ RFind(ret, DELIMITER) = 1

\* C6 as stated: every character of the output is in [A-Za-z0-9-].
C6_AsStated ==
    Returned("encode") =>
        \A x \in DOMAIN ret : ret[x] \in Alnum \cup {DELIMITER}

\* C6 (amended): the output is the basic code points of the input in order,
\* a delimiter if there are any, and then only characters of [a-z0-9].
C6_OutputAlphabet ==
    Returned("encode") =>
        LET basic == SelectSeq(input_str, LAMBDA cp : cp < 128)
            pre   == IF basic = <<>> THEN <<>> ELSE basic \o <<DELIMITER>>
        IN  /\ Len(ret) >= Len(pre)
            /\ SubSeq(ret, 1, Len(pre)) = pre
            /\ \A x \in DOMAIN ret : x > Len(pre) => ret[x] \in LowerAlnum

C6_Witness ==
    /\ Returned("encode")
    /\ input_str = <<33, 1114111>>
    /\ ret[1] = 33
    /\ Len(ret) > 3

\* C7: the documented vectors: "München" encodes to "Mnchen-3ya" and
\* "ü" to "tda", and these decode back.
C7_Vectors ==
    /\ (call = "encode" /\ input_str = Munchen /\ Final(Cur)) =>
          pc = "returned" /\ ret = MnchenPuny
    /\ (call = "encode" /\ input_str = Uuml /\ Final(Cur)) =>
          pc = "returned" /\ ret = Tda
    /\ (call = "decode" /\ input_str = MnchenPuny /\ Final(Cur)) =>
          pc = "returned" /\ ret = Munchen
    /\ (call = "decode" /\ input_str = Tda /\ Final(Cur)) =>
          pc = "returned" /\ ret = Uuml

C7_Witness ==
    \/ Returned("encode") /\ input_str = Munchen /\ ret = MnchenPuny /\ h = 7
    \/ Returned("decode") /\ input_str = Tda /\ ret = Uuml /\ n = 252

C9_MinimumExists ==
    /\ call = "encode" => pc # "raised"
    /\ (call = "encode" /\ pc = "enc_while") =>
          /\ b = NumBasic(input_cps)
          /\ h = b + Cardinality({x \in DOMAIN input_cps :
                                     input_cps[x] >= 128 /\ input_cps[x] < n})
          /\ h < Len(input_cps) =>
                \E x \in DOMAIN input_cps : input_cps[x] >= 128 /\ input_cps[x] >= n

\* the loop is entered again after a code point has been handled
C9_Witness ==
    call = "encode" /\ pc = "enc_while" /\ h > b /\ h < Len(input_cps) /\ n > INITIAL_N

\* C10: every insertion of punycode_decode is at an index i within
\* 0 .. len(output) and makes output one longer, and no other step of the
\* loop changes output.
C10_Insertion ==
    [][/\ pc = "dec_insert" =>
            /\ i >= 0 /\ i <= Len(output)
            /\ Len(output') = Len(output) + 1
            /\ output' = Insert(output, i, n)
       /\ pc \in {"dec_while", "dec_digit", "dec_adapt"} => output' = output]_vars

\* an insertion behind the first element of a non-empty output
C10_Witness ==
    call = "decode" /\ pc = "dec_insert" /\ Len(output) >= 1 /\ i >= 1

====
